---- MODULE Spec2Model ----
(***************************************************************************)
(* A model of the coin price tracker: the in-memory price cache            *)
(* (src/src/index.ts, class Cache), the interpolation and cross-rate       *)
(* functions (src/src/priceConversion.ts) and the request / ingestion      *)
(* layer that uses them (src/src/index.ts).                                *)
(*                                                                         *)
(* Dates are modelled by their getTime() value (integer milliseconds).     *)
(***************************************************************************)
EXTENDS Integers, Sequences, FiniteSets, TLC

(***************************************************************************)
(* Bounds of the model.                                                    *)
(***************************************************************************)
\* Sample timestamps are the first MaxT multiples of the timer period.
MaxT == 3
\* A series handed to interpolatePrice has at most MaxLen samples, one
\* handed to computeDirectExchangeRate at most MaxLen - 1.
MaxLen == 3
\* At most MaxRounds runs of the timer callback are in flight at a time.
MaxRounds == 2

(***************************************************************************)
(* Program constants.                                                      *)
(***************************************************************************)
\* index.ts:91   readonly ttlMillis = 24 * 60 * 60 * 1000
ttlMillis == 24 * 60 * 60 * 1000
\* index.ts:483   the period of setInterval, in milliseconds
interval == 60000

\* index.ts:78-86, the symbols of the tracked currencies, in order; the
\* model keeps the first two of the seven.
trackedCurrencies == <<"USD", "EUR">>

Symbols == {trackedCurrencies[k] : k \in 1..Len(trackedCurrencies)}
CacheDates == {k * interval : k \in 1..MaxT}
CachePrices == {1, 2}
\* interface BtcPricePoint {priceSats, date}
BtcPricePoint == [priceSats : CachePrices, date : CacheDates]
\* The dates and prices of the rows of the store and of the quotes of the
\* provider.
SysDates == {k * interval : k \in 1..(MaxT - 1)}
SysPrices == {1}
\* The server starts when the first date of SysDates is as old as the
\* time-to-live, and its clock runs until every date of SysDates is older.
SysStartTime == ttlMillis + interval
SysEndTime == ttlMillis + MaxT * interval
\* index.ts:54-67   what getPriceInSats can return
Quote == [priceSats : SysPrices, date : SysDates]

\* The clock starts when every date of CacheDates is still inside the
\* time-to-live window, and runs until every one of them has left it. It
\* is read in steps of one timer period.
StartTime == ttlMillis
EndTime == ttlMillis + (MaxT + 1) * interval

VARIABLES
  cache,      \* Cache.cache: Map<string, BtcPricePoint[]>, a function whose
              \* domain is the set of keys of the map
  now,        \* the wall clock, new Date().getTime()
  lastOp,     \* the call that the last step made on the cache, with its
              \* arguments and the clock value it read
  prevCache,  \* the value of cache before the last step
  held        \* the array that a caller of get holds: the symbol it asked
              \* for, the contents of the array when get returned it
              \* (snapshot), its contents now (prices), and whether it is
              \* still the array of the map (live)

cacheVars == <<cache, now, lastOp, prevCache, held>>

VARIABLES
  currency1,  \* the first series given to the conversion functions
  currency2,  \* the second series given to computeDirectExchangeRate
  targetTime, \* the time given to interpolatePrice
  called,     \* which conversion function has returned, "" for none
  estimate,   \* the number or null that interpolatePrice returned
  results     \* the PricePoint[] that computeDirectExchangeRate returned

convVars == <<currency1, currency2, targetTime, called, estimate, results>>

VARIABLES
  store,      \* the rows of the Price table, each with the symbol of its currency
  seed,       \* the position of the seeding loop of the app.listen callback
  rounds,     \* the runs of the timer callback, each with its position
  response    \* the response the last step sent, if it handled a request

sysVars == <<store, seed, rounds, response>>

vars == <<cacheVars, convVars, sysVars>>

(***************************************************************************)
(* class Cache                                                             *)
(***************************************************************************)

\* Map.prototype.set / Map.prototype.delete on the map of the cache.
mapSet(c, symbol, prices) ==
  [s \in (DOMAIN c) \cup {symbol} |-> IF s = symbol THEN prices ELSE c[s]]

\* A delete that empties the array of the key and leaves the key.
mapDeleteMutant(c, symbol) == mapSet(c, symbol, <<>>)
mapDelete(c, symbol) ==
  [s \in (DOMAIN c) \ {symbol} |-> c[s]]

\* Array.prototype.splice(i, 0, price): insert at 0-based index i.
splice(prices, i, price) ==
  SubSeq(prices, 1, i) \o <<price>> \o SubSeq(prices, i + 1, Len(prices))

\* The test of isStale with the operands of the subtraction exchanged.
isStaleMutant(t, price) == price.date - t > ttlMillis
\* index.ts:102   now.getTime() - price.date.getTime() > this.ttlMillis
isStale(t, price) == t - price.date > ttlMillis

\* The search of hasDate comparing the whole price point, not its date alone.
hasDateMutant(prices, price) ==
  \E k \in 1..Len(prices) :
    prices[k].date = price.date /\ prices[k].priceSats = price.priceSats
\* index.ts:118   prices.find(p => p.date.getTime() === price.date.getTime())
hasDate(prices, price) ==
  \E k \in 1..Len(prices) : prices[k].date = price.date

\* The loop of insertIndex without its break, so that it always appends.
insertIndexMutant(prices, price) == Len(prices)
\* index.ts:123-128   the 0-based index of the first element that is later
\* than price, or prices.length when there is none.
insertIndex(prices, price) ==
  LET later == {k \in 1..Len(prices) : prices[k].date > price.date}
  IN  IF later = {} THEN Len(prices)
      ELSE (CHOOSE k \in later : \A j \in later : k <= j) - 1

\* addPricePoint leaving a new map behind, with the one entry of its symbol.
addPricePointMutant(c, t, symbol, price) ==
  IF isStale(t, price) THEN c
  ELSE [s \in {symbol} |-> IF symbol \in DOMAIN c /\ hasDate(c[symbol], price)
                             THEN c[symbol]
                             ELSE <<price>>]
\* index.ts:99-134   Cache.addPricePoint, as the map it leaves behind
addPricePoint(c, t, symbol, price) ==
  IF isStale(t, price) THEN c
  ELSE IF symbol \notin DOMAIN c THEN mapSet(c, symbol, <<price>>)
  ELSE LET prices == c[symbol]
       IN  IF hasDate(prices, price) THEN c
           ELSE mapSet(c, symbol, splice(prices, insertIndex(prices, price), price))

\* index.ts:136-138   Cache.get; undefined is [present |-> FALSE]
get(c, symbol) ==
  IF symbol \in DOMAIN c
    THEN [present |-> TRUE, prices |-> c[symbol]]
    ELSE [present |-> FALSE, prices |-> <<>>]

\* index.ts:145   the predicate of prices.filter in cleanup
isFresh(t, price) == t - price.date <= ttlMillis

\* A removal loop that deletes while it walks the array by index, and so
\* skips the element that follows each deleted one.
RECURSIVE removeWhileWalking(_, _, _)
removeWhileWalking(prices, i, t) ==
  IF i > Len(prices) THEN prices
  ELSE IF isFresh(t, prices[i]) THEN removeWhileWalking(prices, i + 1, t)
  ELSE removeWhileWalking(SubSeq(prices, 1, i - 1) \o SubSeq(prices, i + 1, Len(prices)),
                          i + 1, t)
filterPricesMutant(prices, t) == removeWhileWalking(prices, 1, t)
\* index.ts:145   prices.filter(price => now - price.date <= ttlMillis)
filterPrices(prices, t) ==
  SelectSeq(prices, LAMBDA price : isFresh(t, price))

\* The callback of cleanup without the branch that deletes an emptied entry.
cleanupEntryMutant(c, t, symbol) ==
  mapSet(c, symbol, filterPrices(c[symbol], t))
\* index.ts:144-151   the body of the forEach callback, for one entry
cleanupEntry(c, t, symbol) ==
  LET filteredPrices == filterPrices(c[symbol], t)
  IN  IF Len(filteredPrices) > 0
        THEN mapSet(c, symbol, filteredPrices)
        ELSE mapDelete(c, symbol)

\* index.ts:142-152   Cache.cleanup: forEach over the entries of the map.
\* Each callback touches its own key only, so the order of the walk does
\* not matter.
RECURSIVE cleanupEach(_, _, _)
cleanupEach(c, t, todo) ==
  IF todo = {} THEN c
  ELSE LET symbol == CHOOSE s \in todo : TRUE
       IN  cleanupEach(cleanupEntry(c, t, symbol), t, todo \ {symbol})

\* cleanup that stops after the first entry of the map.
cleanupMutant(c, t) ==
  IF DOMAIN c = {} THEN c ELSE cleanupEntry(c, t, CHOOSE s \in DOMAIN c : TRUE)
cleanup(c, t) == cleanupEach(c, t, DOMAIN c)

\* index.ts:95   new Map<string, BtcPricePoint[]>()
emptyMap == [s \in {} |-> <<>>]
\* No caller holds an array of the cache.
noHeld == [symbol |-> "", snapshot |-> <<>>, prices |-> <<>>, live |-> FALSE]

\* index.ts:111, 132   addPricePoint splices into the array of the map, so
\* an array that get handed out and that is still the one of the map has
\* the contents the map has for its symbol after the call (c2).
heldAfterAdd(h, c2, symbol) ==
  IF h.live /\ h.symbol = symbol THEN [h EXCEPT !.prices = c2[symbol]] ELSE h

\* index.ts:145-149   cleanup sets a new array (the result of filter) for
\* every entry or deletes the entry: no array handed out before is one of
\* the map after it.
heldAfterCleanup(h) == [h EXCEPT !.live = FALSE]

\* No call was made on the cache yet.
noOp == [op |-> "none", symbol |-> "", price |-> [priceSats |-> 0, date |-> 0], now |-> 0]

\* Strictly ascending by date.
IsAscending(prices) ==
  \A i \in 1..(Len(prices) - 1) : prices[i].date < prices[i + 1].date

(***************************************************************************)
(* priceConversion.ts                                                      *)
(*                                                                         *)
(* A JavaScript number is a record: a rational num/den in lowest terms     *)
(* with den > 0, or one of Infinity, -Infinity and NaN; null is a value    *)
(* of its own.                                                             *)
(***************************************************************************)
RECURSIVE gcd(_, _)
gcd(a, b) == IF b = 0 THEN a ELSE gcd(b, a % b)

abs(a) == IF a < 0 THEN -a ELSE a

\* The number n/d, d # 0.
Num(n, d) ==
  LET g == gcd(abs(n), abs(d))
      sign == IF d < 0 THEN -1 ELSE 1
  IN  [kind |-> "number", num |-> sign * (n \div g), den |-> sign * (d \div g)]

Infinity == [kind |-> "Infinity", num |-> 1, den |-> 0]
NegInfinity == [kind |-> "-Infinity", num |-> -1, den |-> 0]
NaN == [kind |-> "NaN", num |-> 0, den |-> 0]
null == [kind |-> "null", num |-> 0, den |-> 1]

\* a / b of two finite numbers, as IEEE 754 defines it for a zero divisor.
divide(a, b) ==
  IF b.num # 0 THEN Num(a.num * b.den, a.den * b.num)
  ELSE IF a.num > 0 THEN Infinity
  ELSE IF a.num < 0 THEN NegInfinity
  ELSE NaN

\* The first and the last index, in array order, of a set of indices of an
\* array; 0 (undefined) when the set is empty.
firstOf(hits) == IF hits = {} THEN 0 ELSE CHOOSE k \in hits : \A j \in hits : k <= j
lastOf(hits) == IF hits = {} THEN 0 ELSE CHOOSE k \in hits : \A j \in hits : k >= j

\* The exact match found only when its price is truthy.
findExactMatchMutant(data, t) ==
  firstOf({k \in 1..Len(data) : data[k].date = t /\ data[k].priceSats # 0})
\* priceConversion.ts:6   data.find(d => d.date.getTime() === targetTime.getTime())
findExactMatch(data, t) == firstOf({k \in 1..Len(data) : data[k].date = t})

\* The earlier samples searched with find, which returns the first of them.
findClosestBeforeMutant(data, t) == firstOf({k \in 1..Len(data) : data[k].date < t})
\* priceConversion.ts:11   data.filter(d => d.date < targetTime).pop()
findClosestBefore(data, t) == lastOf({k \in 1..Len(data) : data[k].date < t})

\* priceConversion.ts:12   data.find(d => d.date > targetTime)
findClosestAfter(data, t) == firstOf({k \in 1..Len(data) : data[k].date > t})

\* The interpolation with the time fraction measured from the later sample.
interpolateBetweenMutant(closestBefore, closestAfter, t) ==
  LET timeDiff == closestAfter.date - closestBefore.date
      priceDiff == closestAfter.priceSats - closestBefore.priceSats
  IN  Num(closestBefore.priceSats * timeDiff + (closestAfter.date - t) * priceDiff,
          timeDiff)
\* priceConversion.ts:25-31   the linear interpolation between two samples
interpolateBetween(closestBefore, closestAfter, t) ==
  LET timeDiff == closestAfter.date - closestBefore.date
      priceDiff == closestAfter.priceSats - closestBefore.priceSats
  IN  Num(closestBefore.priceSats * timeDiff + (t - closestBefore.date) * priceDiff,
          timeDiff)

\* priceConversion.ts:4-32   interpolatePrice; an index of 0 is undefined
interpolatePrice(data, t) ==
  LET exactMatch == findExactMatch(data, t)
      closestBefore == findClosestBefore(data, t)
      closestAfter == findClosestAfter(data, t)
  IN  IF exactMatch # 0 THEN Num(data[exactMatch].priceSats, 1)
      ELSE IF closestBefore = 0 \/ closestAfter = 0
        THEN IF closestBefore # 0 THEN Num(data[closestBefore].priceSats, 1)
             ELSE IF closestAfter # 0 THEN Num(data[closestAfter].priceSats, 1)
             ELSE null
      ELSE interpolateBetween(data[closestBefore], data[closestAfter], t)

\* Number.prototype.toString of a non-negative integer, as its digits.
RECURSIVE toString(_)
toString(n) == IF n < 10 THEN <<n>> ELSE toString(n \div 10) \o <<n % 10>>

\* The order of strings by UTF-16 code units, which orders the digits as
\* numbers: x sorts before y.
RECURSIVE stringLess(_, _)
stringLess(x, y) ==
  IF x = <<>> THEN y # <<>>
  ELSE IF y = <<>> THEN FALSE
  ELSE IF Head(x) # Head(y) THEN Head(x) < Head(y)
  ELSE stringLess(Tail(x), Tail(y))

\* priceConversion.ts:41   the comparison of Array.prototype.sort() called
\* without a compare function: the elements are compared as strings.
sortsBefore(a, b) == stringLess(toString(a), toString(b))

\* Array.prototype.sort(): the elements of the set, in the order of
\* sortsBefore.
RECURSIVE sortDefault(_)
sortDefault(dateSet) ==
  IF dateSet = {} THEN <<>>
  ELSE LET first == CHOOSE a \in dateSet :
                      \A b \in dateSet \ {a} : sortsBefore(a, b)
       IN  <<first>> \o sortDefault(dateSet \ {first})

\* The dates of the first series only.
getAllDatesMutant(c1, c2) == sortDefault({c1[k].date : k \in 1..Len(c1)})
\* priceConversion.ts:35-42   getAllDates
getAllDates(c1, c2) ==
  LET both == c1 \o c2
      dateSet == {both[k].date : k \in 1..Len(both)}
  IN  sortDefault(dateSet)

\* The body of the loop with the operands of the division exchanged.
rateAtMutant(c1, c2, date) ==
  LET interpolatedPrice1 == interpolatePrice(c1, date)
      interpolatedPrice2 == interpolatePrice(c2, date)
  IN  IF interpolatedPrice1 = null \/ interpolatedPrice2 = null
        THEN [price |-> null, date |-> date]
        ELSE [price |-> divide(interpolatedPrice2, interpolatedPrice1), date |-> date]
\* priceConversion.ts:52-62   the body of the loop for one date; null is
\* the entry [price |-> null]
rateAt(c1, c2, date) ==
  LET interpolatedPrice1 == interpolatePrice(c1, date)
      interpolatedPrice2 == interpolatePrice(c2, date)
  IN  IF interpolatedPrice1 = null \/ interpolatedPrice2 = null
        THEN [price |-> null, date |-> date]
        ELSE [price |-> divide(interpolatedPrice1, interpolatedPrice2), date |-> date]

\* computeDirectExchangeRate without the filter of its last line.
computeDirectExchangeRateMutant(c1, c2) ==
  LET allDates == getAllDates(c1, c2)
  IN  [k \in 1..Len(allDates) |-> rateAt(c1, c2, allDates[k])]
\* priceConversion.ts:44-66   computeDirectExchangeRate
computeDirectExchangeRate(c1, c2) ==
  LET allDates == getAllDates(c1, c2)
      all == [k \in 1..Len(allDates) |-> rateAt(c1, c2, allDates[k])]
  IN  SelectSeq(all, LAMBDA r : r.price # null)

(***************************************************************************)
(* The series given to the conversion functions on their own.              *)
(***************************************************************************)
ConvDates == {0, 5, 10, 20}
ConvPrices == {0, 5, 10, 30}
ConvPoint == [priceSats : ConvPrices, date : ConvDates]

UniqueDates(data) ==
  \A i, j \in 1..Len(data) : i # j => data[i].date # data[j].date
IsDescending(data) ==
  \A i \in 1..(Len(data) - 1) : data[i].date > data[i + 1].date

\* Series with unique timestamps, in any order.
AnySeries(n) ==
  {data \in UNION {[1..k -> ConvPoint] : k \in 0..n} : UniqueDates(data)}
\* Series as the cache (ascending) and the store (sortOrder asc or desc)
\* hand them out.
SortedSeries(n) ==
  {data \in UNION {[1..k -> ConvPoint] : k \in 0..n} :
     IsAscending(data) \/ IsDescending(data)}

noEstimate == null
noResults == <<>>

ConvIdle ==
  /\ currency1 = <<>>
  /\ currency2 = <<>>
  /\ targetTime = 0
  /\ called = ""
  /\ estimate = noEstimate
  /\ results = noResults

CacheIdle ==
  /\ cache = emptyMap
  /\ now = StartTime
  /\ lastOp = noOp
  /\ prevCache = emptyMap
  /\ held = noHeld

(***************************************************************************)
(* The server (index.ts): the Price table, the seeding of the cache, the   *)
(* timer callback with ingestData, and the two request handlers.           *)
(***************************************************************************)
\* schema.prisma:17-25   model Price, with the symbol of its currency;
\* @@unique([currencyId, dateTime])
Price == [symbol : Symbols, priceSats : SysPrices, dateTime : SysDates]

\* A row of the table as a BtcPricePoint (index.ts:257-260, 368-371, 419-422)
toPricePoint(row) == [priceSats |-> row.priceSats, date |-> row.dateTime]

\* orderBy: {dateTime: sortOrder}
RECURSIVE orderByDateTime(_, _)
orderByDateTime(rows, sortOrder) ==
  IF rows = {} THEN <<>>
  ELSE LET first == CHOOSE a \in rows : \A b \in rows :
                      IF sortOrder = "asc" THEN a.dateTime <= b.dateTime
                                           ELSE a.dateTime >= b.dateTime
       IN  <<first>> \o orderByDateTime(rows \ {first}, sortOrder)

min(a, b) == IF a < b THEN a ELSE b

\* index.ts:239-255   prisma.price.findMany with where, orderBy, take and
\* skip; a startDate of 0 is undefined (no filter on dateTime)
findMany(rows, symbol, startDate, sortOrder, limit, offset) ==
  LET matching == {row \in rows : /\ row.symbol = symbol
                                  /\ (startDate # 0 => row.dateTime > startDate)}
      ordered == orderByDateTime(matching, sortOrder)
      skipped == SubSeq(ordered, offset + 1, Len(ordered))
      taken == SubSeq(skipped, 1, min(limit, Len(skipped)))
  IN  [k \in 1..Len(taken) |-> toPricePoint(taken[k])]

\* index.ts:192   parseInt(req.query.limit, 10) || 10; the query value 0
\* stands for a missing limit too
parseLimit(limit) == IF limit = 0 THEN 10 ELSE limit

\* index.ts:227-229   the test that sends the handler to the cache
answersFromCache(cachedResults, startDate) ==
  /\ startDate # 0
  /\ cachedResults.present
  /\ cachedResults.prices[1].date > startDate

\* The filter reading the array while an insert has not yet put its last
\* element in place.
filterCachedMutant(prices, startDate) ==
  SelectSeq(SubSeq(prices, 1, Len(prices) - 1), LAMBDA price : price.date > startDate)
\* index.ts:236   cachedResults.filter(price => price.date > peggedStartDate)
filterCached(prices, startDate) ==
  SelectSeq(prices, LAMBDA price : price.date > startDate)

\* index.ts:223-260   the prices of one symbol for a request, from the
\* cache or from the store
pricesFor(c, rows, symbol, startDate, sortOrder, limit, offset) ==
  LET cachedResults == get(c, symbol)
  IN  IF answersFromCache(cachedResults, startDate)
        THEN filterCached(cachedResults.prices, startDate)
        ELSE findMany(rows, symbol, startDate, sortOrder, limit, offset)

noPrice == [priceSats |-> 0, date |-> 0]
noResponse ==
  [endpoint |-> "", symbols |-> <<>>, startDate |-> 0, limit |-> 0, offset |-> 0,
   sortOrder |-> "", fromCache |-> <<>>, body |-> <<>>]
\* A run of the timer callback that has not started.
freeRound ==
  [pc |-> "free", at |-> "", i |-> 0, price |-> noPrice, fetched |-> {}, created |-> {}]

Slots == 1..MaxRounds
NumTracked == Len(trackedCurrencies)

\* The query parameters of the requests of the model.
ReqStartDates == {0} \cup SysDates
ReqLimits == {0, 1}
ReqOffsets == {0}
ReqSortOrders == {"asc", "desc"}

SysIdle ==
  /\ store = {}
  /\ seed = [pc |-> "done", i |-> NumTracked, prices |-> {}]
  /\ rounds = [r \in Slots |-> freeRound]
  /\ response = noResponse

\* The Price table when the process starts: the rows of earlier runs.
InitialStores ==
  {rows \in SUBSET Price :
     /\ Cardinality(rows) <= 1
     /\ \A a, b \in rows : (a.symbol = b.symbol /\ a.dateTime = b.dateTime) => a = b}

Init ==
  /\ cache = emptyMap
  /\ now = SysStartTime
  /\ lastOp = noOp
  /\ prevCache = emptyMap
  /\ held = noHeld
  /\ ConvIdle
  /\ store \in InitialStores
  /\ seed = [pc |-> "query", i |-> 1, prices |-> {}]
  /\ rounds = [r \in Slots |-> freeRound]
  /\ response = noResponse

\* index.ts:404-417   the store answers the findMany of the seeding loop
SeedQuery ==
  /\ seed.pc = "query"
  /\ seed' = [seed EXCEPT
       !.pc = "insert",
       !.prices = {row \in store : /\ row.symbol = trackedCurrencies[seed.i]
                                   /\ row.dateTime > now - ttlMillis}]
  /\ response' = noResponse
  /\ UNCHANGED <<cacheVars, convVars, store, rounds>>

\* index.ts:418-423   prices.forEach(price => cache.addPricePoint(...)); the
\* rows of one symbol have distinct dates, so the order of the walk does
\* not matter.
RECURSIVE addEach(_, _, _, _)
addEach(c, t, symbol, rows) ==
  IF rows = {} THEN c
  ELSE LET row == CHOOSE r \in rows : TRUE
       IN  addEach(addPricePoint(c, t, symbol, toPricePoint(row)), t, symbol, rows \ {row})

\* index.ts:418-424   the loop body after the await, and the next iteration
SeedInsert ==
  /\ seed.pc = "insert"
  /\ cache' = addEach(cache, now, trackedCurrencies[seed.i], seed.prices)
  /\ seed' = IF seed.i < NumTracked
               THEN [pc |-> "query", i |-> seed.i + 1, prices |-> {}]
               ELSE [pc |-> "done", i |-> seed.i, prices |-> {}]
  /\ response' = noResponse
  /\ UNCHANGED <<now, lastOp, prevCache, held, convVars, store, rounds>>

\* index.ts:471-478, 483   a timer period has passed and the timer fires:
\* cache.cleanup(), then ingestData() runs up to its first await, the
\* upsert of the first currency.
TimerTick ==
  /\ now < SysEndTime
  /\ now' = now + interval
  /\ \E r \in Slots :
       /\ rounds[r].pc \in {"free", "done", "failed"}
       /\ \A q \in Slots : q < r => rounds[q].pc \notin {"free", "done", "failed"}
       /\ rounds' = [rounds EXCEPT ![r] = [freeRound EXCEPT !.pc = "upsert", !.i = 1]]
  /\ cache' = cleanup(cache, now')
  /\ response' = noResponse
  /\ UNCHANGED <<lastOp, prevCache, held, convVars, store, seed>>

\* index.ts:432-443   an upsert of the first loop of ingestData returns
UpsertDone(r) ==
  /\ rounds[r].pc = "upsert"
  /\ rounds' = [rounds EXCEPT ![r] =
       IF rounds[r].i < NumTracked
         THEN [@ EXCEPT !.i = @ + 1]
         ELSE [@ EXCEPT !.pc = "fetch", !.i = 1]]
  /\ response' = noResponse
  /\ UNCHANGED <<cacheVars, convVars, store, seed>>

\* index.ts:449-451   getPriceInSats returns price: cache.addPricePoint,
\* then prisma.price.create is sent
FetchDone(r, price) ==
  /\ rounds[r].pc = "fetch"
  /\ cache' = addPricePoint(cache, now, trackedCurrencies[rounds[r].i], price)
  /\ rounds' = [rounds EXCEPT ![r] =
       [@ EXCEPT !.pc = "create", !.price = price,
                 !.fetched = @ \cup {trackedCurrencies[rounds[r].i]}]]
  /\ response' = noResponse
  /\ UNCHANGED <<now, lastOp, prevCache, held, convVars, store, seed>>

\* schema.prisma:24   @@unique([currencyId, dateTime])
violatesUnique(rows, symbol, price) ==
  \E row \in rows : row.symbol = symbol /\ row.dateTime = price.date

\* index.ts:451-463   prisma.price.create inserts the row, and the loop
\* goes on to the next currency
CreateDone(r) ==
  LET symbol == trackedCurrencies[rounds[r].i]
  IN  /\ rounds[r].pc = "create"
      /\ ~violatesUnique(store, symbol, rounds[r].price)
      /\ store' = store \cup {[symbol |-> symbol,
                               priceSats |-> rounds[r].price.priceSats,
                               dateTime |-> rounds[r].price.date]}
      /\ rounds' = [rounds EXCEPT ![r] =
           IF rounds[r].i < NumTracked
             THEN [@ EXCEPT !.pc = "fetch", !.i = @ + 1, !.price = noPrice,
                            !.created = @ \cup {symbol}]
             ELSE [@ EXCEPT !.pc = "done", !.price = noPrice,
                            !.created = @ \cup {symbol}]]
      /\ response' = noResponse
      /\ UNCHANGED <<cacheVars, convVars, seed>>

\* index.ts:477-482   an await of ingestData throws (the upsert, the fetch
\* or the create: the network, the provider's answer, the database, or the
\* unique constraint of the Price table); the catch of the timer callback
\* logs the error and the run is over.
StepThrows(r) ==
  /\ rounds[r].pc \in {"upsert", "fetch", "create"}
  /\ rounds' = [rounds EXCEPT ![r] = [@ EXCEPT !.pc = "failed", !.at = rounds[r].pc]]
  /\ response' = noResponse
  /\ UNCHANGED <<cacheVars, convVars, store, seed>>

\* index.ts:187-261   GET /priceInSats/:symbol with valid query parameters
GetPriceInSats(symbol, limit, offset, startDate, sortOrder) ==
  /\ response = noResponse
  /\ response' =
       [endpoint |-> "priceInSats", symbols |-> <<symbol>>, startDate |-> startDate,
        limit |-> limit, offset |-> offset, sortOrder |-> sortOrder,
        fromCache |-> <<answersFromCache(get(cache, symbol), startDate)>>,
        body |-> pricesFor(cache, store, symbol, startDate, sortOrder,
                           parseLimit(limit), offset)]
  /\ UNCHANGED <<cacheVars, convVars, store, seed, rounds>>

\* index.ts:279-398   GET /price/:baseSymbol/:pricedSymbol with valid query
\* parameters; the store answers the queries of one request from one state
\* of the table
GetPrice(baseSymbol, pricedSymbol, limit, offset, startDate, sortOrder) ==
  LET baseCurrencyPrices == pricesFor(cache, store, baseSymbol, startDate, sortOrder,
                                      parseLimit(limit), offset)
      pricedCurrencyPrices == pricesFor(cache, store, pricedSymbol, startDate, sortOrder,
                                        parseLimit(limit), offset)
  IN  /\ response = noResponse
      /\ baseSymbol # pricedSymbol
      /\ response' =
           [endpoint |-> "price", symbols |-> <<baseSymbol, pricedSymbol>>,
            startDate |-> startDate, limit |-> limit, offset |-> offset,
            sortOrder |-> sortOrder,
            fromCache |-> <<answersFromCache(get(cache, baseSymbol), startDate),
                            answersFromCache(get(cache, pricedSymbol), startDate)>>,
            body |-> computeDirectExchangeRate(pricedCurrencyPrices, baseCurrencyPrices)]
      /\ UNCHANGED <<cacheVars, convVars, store, seed, rounds>>

\* The client has read the response.
ResponseRead ==
  /\ response # noResponse
  /\ response' = noResponse
  /\ UNCHANGED <<cacheVars, convVars, store, seed, rounds>>

Next ==
  \/ SeedQuery
  \/ SeedInsert
  \/ TimerTick
  \/ \E r \in Slots : UpsertDone(r)
  \/ \E r \in Slots, price \in Quote : FetchDone(r, price)
  \/ \E r \in Slots : CreateDone(r)
  \/ \E r \in Slots : StepThrows(r)
  \/ \E symbol \in Symbols, limit \in ReqLimits, offset \in ReqOffsets,
        startDate \in ReqStartDates, sortOrder \in ReqSortOrders :
       GetPriceInSats(symbol, limit, offset, startDate, sortOrder)
  \/ \E baseSymbol \in Symbols, pricedSymbol \in Symbols,
        limit \in ReqLimits, offset \in ReqOffsets,
        startDate \in ReqStartDates, sortOrder \in ReqSortOrders :
       GetPrice(baseSymbol, pricedSymbol, limit, offset, startDate, sortOrder)
  \/ ResponseRead

Spec == Init /\ [][Next]_vars

\* An await of a run of ingestData settles: it returns or it throws.
Settles(r) ==
  \/ UpsertDone(r)
  \/ \E price \in Quote : FetchDone(r, price)
  \/ CreateDone(r)
  \/ StepThrows(r)

\* The steps that write the cache, the clock or the runs: the seeding and
\* the timer callback. The request handlers only read.
LiveNext ==
  \/ SeedQuery
  \/ SeedInsert
  \/ TimerTick
  \/ \E r \in Slots : Settles(r)

\* index.ts:471, 483   setInterval fires the callback after every period,
\* as long as the clock of the model runs. The model follows at most
\* MaxRounds runs at a time and a tick needs a run that is over, so every
\* await of a run settles.
SpecIngest == Init /\ [][LiveNext]_vars

SpecLive ==
  /\ SpecIngest
  /\ WF_vars(TimerTick)
  /\ \A r \in Slots : WF_vars(Settles(r))

(***************************************************************************)
(* The conversion functions on their own, on every series of the bounds.   *)
(***************************************************************************)
InterpInit ==
  /\ currency1 \in AnySeries(MaxLen)
  /\ currency2 = <<>>
  /\ targetTime \in ConvDates
  /\ called = ""
  /\ estimate = noEstimate
  /\ results = noResults
  /\ CacheIdle
  /\ SysIdle

\* A call of interpolatePrice(currency1, targetTime).
CallInterpolatePrice ==
  /\ called = ""
  /\ estimate' = interpolatePrice(currency1, targetTime)
  /\ called' = "interpolatePrice"
  /\ UNCHANGED <<currency1, currency2, targetTime, results, cacheVars, sysVars>>

InterpNext == CallInterpolatePrice

SpecInterp == InterpInit /\ [][InterpNext]_vars

RateInit ==
  /\ currency1 \in SortedSeries(MaxLen - 1)
  /\ currency2 \in SortedSeries(MaxLen - 1)
  /\ targetTime = 0
  /\ called = ""
  /\ estimate = noEstimate
  /\ results = noResults
  /\ CacheIdle
  /\ SysIdle

\* A call of computeDirectExchangeRate(currency1, currency2).
CallComputeDirectExchangeRate ==
  /\ called = ""
  /\ results' = computeDirectExchangeRate(currency1, currency2)
  /\ called' = "computeDirectExchangeRate"
  /\ UNCHANGED <<currency1, currency2, targetTime, estimate, cacheVars, sysVars>>

RateNext == CallComputeDirectExchangeRate

SpecRate == RateInit /\ [][RateNext]_vars

\* Both functions on inputs of which one series is empty.
EmptyInit ==
  /\ \E data \in AnySeries(MaxLen) :
       \/ currency1 = data /\ currency2 = <<>>
       \/ currency1 = <<>> /\ currency2 = data
  /\ targetTime \in ConvDates
  /\ called = ""
  /\ estimate = noEstimate
  /\ results = noResults
  /\ CacheIdle
  /\ SysIdle

EmptyNext ==
  \/ CallInterpolatePrice
  \/ CallComputeDirectExchangeRate

SpecEmpty == EmptyInit /\ [][EmptyNext]_vars

(***************************************************************************)
(* The cache on its own: any sequence of calls, at any clock value.        *)
(***************************************************************************)
CacheInit == CacheIdle /\ ConvIdle /\ SysIdle

\* Time passes: no call is made on the cache in this step.
Tick ==
  /\ now < EndTime
  /\ now' = now + interval
  /\ lastOp' = noOp
  /\ prevCache' = cache
  /\ UNCHANGED <<cache, held, convVars, sysVars>>

\* A call of cache.addPricePoint(symbol, price).
CallAddPricePoint(symbol, price) ==
  /\ cache' = addPricePoint(cache, now, symbol, price)
  /\ lastOp' = [op |-> "addPricePoint", symbol |-> symbol, price |-> price, now |-> now]
  /\ prevCache' = cache
  /\ held' = heldAfterAdd(held, cache', symbol)
  /\ UNCHANGED <<now, convVars, sysVars>>

\* A call of cache.cleanup().
CallCleanup ==
  /\ cache' = cleanup(cache, now)
  /\ lastOp' = [noOp EXCEPT !.op = "cleanup", !.now = now]
  /\ prevCache' = cache
  /\ held' = heldAfterCleanup(held)
  /\ UNCHANGED <<now, convVars, sysVars>>

CacheNext ==
  \/ Tick
  \/ \E symbol \in Symbols, price \in BtcPricePoint : CallAddPricePoint(symbol, price)
  \/ CallCleanup

SpecCache == CacheInit /\ [][CacheNext]_vars

(***************************************************************************)
(* The cache with a caller that keeps the array that get returned, while   *)
(* other calls are made on the cache.                                      *)
(***************************************************************************)
\* Time passes.
HeldTick ==
  /\ now < EndTime
  /\ now' = now + interval
  /\ UNCHANGED <<cache, lastOp, prevCache, held, convVars, sysVars>>

\* A call of cache.get(symbol) that returns an array, which the caller keeps.
CallGet(symbol) ==
  /\ get(cache, symbol).present
  /\ held' = [symbol |-> symbol, snapshot |-> get(cache, symbol).prices,
              prices |-> get(cache, symbol).prices, live |-> TRUE]
  /\ UNCHANGED <<cache, now, lastOp, prevCache, convVars, sysVars>>

\* A call of cache.addPricePoint(symbol, price).
HeldAddPricePoint(symbol, price) ==
  /\ cache' = addPricePoint(cache, now, symbol, price)
  /\ held' = heldAfterAdd(held, cache', symbol)
  /\ UNCHANGED <<now, lastOp, prevCache, convVars, sysVars>>

\* A call of cache.cleanup().
HeldCleanup ==
  /\ cache' = cleanup(cache, now)
  /\ held' = heldAfterCleanup(held)
  /\ UNCHANGED <<now, lastOp, prevCache, convVars, sysVars>>

HeldNext ==
  \/ HeldTick
  \/ \E symbol \in Symbols : CallGet(symbol)
  \/ \E symbol \in Symbols, price \in BtcPricePoint : HeldAddPricePoint(symbol, price)
  \/ HeldCleanup

SpecHeld == CacheInit /\ [][HeldNext]_vars

(***************************************************************************)
(* Properties of the cache.                                                *)
(***************************************************************************)
\* C1: in every reachable state of the cache, whatever the order in which
\* addPricePoint and cleanup were called and the order in which the
\* timestamps arrived, every cached sequence has strictly ascending
\* timestamps.
C1_CacheAscending ==
  \A s \in DOMAIN cache : IsAscending(cache[s])

\* A sample arrived out of order, after the clock had advanced, and was
\* placed between the two samples cached for its symbol.
C1_Witness ==
  /\ lastOp.op = "addPricePoint"
  /\ lastOp.symbol \in DOMAIN cache
  /\ lastOp.symbol \in DOMAIN prevCache
  /\ Len(prevCache[lastOp.symbol]) = 2
  /\ Len(cache[lastOp.symbol]) = 3
  /\ cache[lastOp.symbol][2] = lastOp.price
  /\ now > StartTime + interval

\* C7: addPricePoint with the timestamp of a sample that is cached for the
\* symbol changes nothing: the cache is as it was, with exactly one sample
\* at that timestamp, the one cached first.
C7_DuplicateIgnored ==
  (/\ lastOp.op = "addPricePoint"
   /\ lastOp.symbol \in DOMAIN prevCache
   /\ \E k \in 1..Len(prevCache[lastOp.symbol]) :
        prevCache[lastOp.symbol][k].date = lastOp.price.date)
  => /\ cache = prevCache
     /\ Cardinality({k \in 1..Len(cache[lastOp.symbol]) :
                       cache[lastOp.symbol][k].date = lastOp.price.date}) = 1

\* The second call carried another price for the timestamp of the only
\* sample of the symbol, the first one ever cached for it.
C7_Witness ==
  /\ lastOp.op = "addPricePoint"
  /\ lastOp.symbol \in DOMAIN prevCache
  /\ Len(prevCache[lastOp.symbol]) = 1
  /\ prevCache[lastOp.symbol][1].date = lastOp.price.date
  /\ prevCache[lastOp.symbol][1].priceSats # lastOp.price.priceSats
  /\ ~isStale(lastOp.now, lastOp.price)

\* C8: addPricePoint of a sample older than the time-to-live is a no-op:
\* no entry is created and every sequence is left as it was.
C8_StaleIgnored ==
  (/\ lastOp.op = "addPricePoint"
   /\ lastOp.now - lastOp.price.date > ttlMillis)
  => cache = prevCache

\* A stale sample was offered for a symbol that is absent while another
\* symbol is cached, and the symbol is still absent.
C8_Witness ==
  /\ lastOp.op = "addPricePoint"
  /\ lastOp.now - lastOp.price.date > ttlMillis
  /\ lastOp.symbol \notin DOMAIN cache
  /\ DOMAIN cache # {}

\* The samples of prices that are not older than the time-to-live at clock
\* value t, in the order of prices.
RECURSIVE KeptSamples(_, _)
KeptSamples(prices, t) ==
  IF prices = <<>> THEN <<>>
  ELSE IF t - Head(prices).date <= ttlMillis
    THEN <<Head(prices)>> \o KeptSamples(Tail(prices), t)
    ELSE KeptSamples(Tail(prices), t)

\* C9: after cleanup at clock value now, every symbol holds exactly the
\* samples it held before that are not older than the time-to-live, in the
\* same order, and a symbol left with none is no longer a key.
C9_CleanupExact ==
  lastOp.op = "cleanup"
  => /\ DOMAIN cache \subseteq DOMAIN prevCache
     /\ \A s \in DOMAIN prevCache :
          LET kept == KeptSamples(prevCache[s], lastOp.now)
          IN  IF kept = <<>> THEN s \notin DOMAIN cache
              ELSE s \in DOMAIN cache /\ cache[s] = kept

\* A cleanup removed one symbol altogether and shortened another.
C9_Witness ==
  /\ lastOp.op = "cleanup"
  /\ \E s \in DOMAIN prevCache : s \notin DOMAIN cache
  /\ \E s \in DOMAIN cache :
       /\ Len(cache[s]) < Len(prevCache[s])
       /\ Len(cache[s]) >= 2

\* C10: a cleanup that directly follows a cleanup, at the same clock value,
\* leaves the cache as the first one left it.
C10_CleanupIdempotent ==
  [][(/\ lastOp.op = "cleanup"
      /\ lastOp.now = now
      /\ lastOp'.op = "cleanup"
      /\ now' = now)
     => cache' = cache]_vars

\* The first of the two cleanups removed samples and left others; the
\* second one can run at the same clock value.
C10_Witness ==
  /\ lastOp.op = "cleanup"
  /\ lastOp.now = now
  /\ cache # prevCache
  /\ \E s \in DOMAIN cache : Len(cache[s]) < Len(prevCache[s])

\* C18: an array that get handed out keeps the length and the contents it
\* had when get returned it, whatever addPricePoint and cleanup calls
\* follow.
C18_StableSnapshot ==
  held # noHeld => held.prices = held.snapshot

(***************************************************************************)
(* Properties of the conversion functions.                                 *)
(***************************************************************************)
\* C4: computeDirectExchangeRate never emits an entry whose ratio is
\* Infinity, -Infinity or NaN: a timestamp of the union at which the
\* estimate of the comparison series (currency2) is 0 is not in the output.
C4_NoZeroDivision ==
  called = "computeDirectExchangeRate"
  => /\ \A k \in 1..Len(results) : results[k].price.kind = "number"
     /\ \A date \in {d \in ConvDates :
                       \/ \E k \in 1..Len(currency1) : currency1[k].date = d
                       \/ \E k \in 1..Len(currency2) : currency2[k].date = d} :
          interpolatePrice(currency2, date) = Num(0, 1)
          => \A k \in 1..Len(results) : results[k].date # date

\* The samples of data by ascending date.
RECURSIVE ByDate(_)
ByDate(data) ==
  IF data = <<>> THEN <<>>
  ELSE LET k == CHOOSE i \in 1..Len(data) :
                  \A j \in 1..Len(data) : data[i].date <= data[j].date
       IN  <<data[k]>> \o ByDate(SubSeq(data, 1, k - 1) \o SubSeq(data, k + 1, Len(data)))

\* C5: for a series with unique timestamps, in whatever order its samples
\* are given, interpolatePrice returns what it returns for the ascending
\* order of the same samples.
C5_OrderIndependent ==
  called = "interpolatePrice"
  => estimate = interpolatePrice(ByDate(currency1), targetTime)

\* C6: the output of computeDirectExchangeRate is in strictly ascending
\* order of timestamps, with no timestamp twice, also when the timestamps
\* differ in their number of decimal digits.
C6_OutputAscending ==
  called = "computeDirectExchangeRate"
  => \A i \in 1..(Len(results) - 1) : results[i].date < results[i + 1].date

\* The timestamps that occur in either series.
UnionDates ==
  {currency1[k].date : k \in 1..Len(currency1)} \cup
  {currency2[k].date : k \in 1..Len(currency2)}

\* C11: when both series are non-empty and ascending and the estimate of
\* the comparison series (currency2) is nowhere 0, the output of
\* computeDirectExchangeRate has exactly one entry for every timestamp of
\* either series, none for any other timestamp, and the ratio of each entry
\* is the estimate of the priced series (currency1) divided by the estimate
\* of the comparison series at that timestamp.
C11_UnionOfTimestamps ==
  (/\ called = "computeDirectExchangeRate"
   /\ currency1 # <<>>
   /\ currency2 # <<>>
   /\ IsAscending(currency1)
   /\ IsAscending(currency2)
   /\ \A d \in UnionDates : interpolatePrice(currency2, d).num # 0)
  => /\ \A d \in UnionDates :
          Cardinality({k \in 1..Len(results) : results[k].date = d}) = 1
     /\ \A k \in 1..Len(results) : results[k].date \in UnionDates
     /\ \A k \in 1..Len(results) :
          LET p == interpolatePrice(currency1, results[k].date)
              q == interpolatePrice(currency2, results[k].date)
          IN  /\ results[k].price.kind = "number"
              /\ results[k].price.num * q.num * p.den
                   = p.num * q.den * results[k].price.den

\* Two ascending series of two samples each with four timestamps between
\* them gave four entries, one of them with a ratio that is not an integer.
C11_Witness ==
  /\ called = "computeDirectExchangeRate"
  /\ Len(currency1) = 2
  /\ Len(currency2) = 2
  /\ IsAscending(currency1)
  /\ IsAscending(currency2)
  /\ Cardinality(UnionDates) = 4
  /\ \A d \in UnionDates : interpolatePrice(currency2, d).num # 0
  /\ Len(results) = 4
  /\ \E k \in 1..Len(results) : results[k].price.den > 1

\* C12, amended: for the priced series [(0,10),(20,30)] and the comparison
\* series [(10,5)], computeDirectExchangeRate returns entries at the
\* timestamps 0, 10 and 20, and the entry at 10 has the ratio 4: the priced
\* series has samples on both sides of 10, so its estimate there is the
\* interpolated 20, divided by 5.
C12_UnionExampleAmended ==
  (/\ called = "computeDirectExchangeRate"
   /\ currency1 = <<[priceSats |-> 10, date |-> 0], [priceSats |-> 30, date |-> 20]>>
   /\ currency2 = <<[priceSats |-> 5, date |-> 10]>>)
  => /\ {results[k].date : k \in 1..Len(results)} = {0, 10, 20}
     /\ Len(results) = 3
     /\ \A k \in 1..Len(results) :
          results[k].date = 10
          => results[k].price = [kind |-> "number", num |-> 4, den |-> 1]

\* C12, as stated: for the priced series [(0,10),(20,30)] and the
\* comparison series [(10,5)], computeDirectExchangeRate returns entries at
\* the timestamps 0, 10 and 20, and the entry at 10 has the ratio 2 (the
\* priced estimate 10 divided by 5).
C12_UnionExample ==
  (/\ called = "computeDirectExchangeRate"
   /\ currency1 = <<[priceSats |-> 10, date |-> 0], [priceSats |-> 30, date |-> 20]>>
   /\ currency2 = <<[priceSats |-> 5, date |-> 10]>>)
  => /\ {results[k].date : k \in 1..Len(results)} = {0, 10, 20}
     /\ \A k \in 1..Len(results) :
          results[k].date = 10
          => results[k].price = [kind |-> "number", num |-> 2, den |-> 1]

\* The call on the two series of the example has returned three entries.
C12_Witness ==
  /\ called = "computeDirectExchangeRate"
  /\ Len(currency1) = 2
  /\ currency1[1] = [priceSats |-> 10, date |-> 0]
  /\ currency1[2] = [priceSats |-> 30, date |-> 20]
  /\ currency2 = <<[priceSats |-> 5, date |-> 10]>>
  /\ Len(results) = 3

\* C13: for a series with unique timestamps that has a sample at the target
\* time, interpolatePrice returns the price of that sample, also when the
\* price is 0, whatever the other samples are.
C13_ExactMatch ==
  called = "interpolatePrice"
  => \A k \in 1..Len(currency1) :
       currency1[k].date = targetTime
       => estimate = [kind |-> "number", num |-> currency1[k].priceSats, den |-> 1]

\* The sample at the target time had the price 0 and stood between two
\* samples with other prices.
C13_Witness ==
  /\ called = "interpolatePrice"
  /\ Len(currency1) = 3
  /\ currency1[2].date = targetTime
  /\ currency1[2].priceSats = 0
  /\ currency1[1].priceSats # 0
  /\ currency1[3].priceSats # 0
  /\ estimate.kind = "number"

\* The latest sample of data earlier than t, and the earliest later than t.
LatestBefore(data, t) ==
  LET k == CHOOSE i \in 1..Len(data) :
             /\ data[i].date < t
             /\ \A j \in 1..Len(data) : data[j].date < t => data[j].date <= data[i].date
  IN  data[k]
EarliestAfter(data, t) ==
  LET k == CHOOSE i \in 1..Len(data) :
             /\ data[i].date > t
             /\ \A j \in 1..Len(data) : data[j].date > t => data[j].date >= data[i].date
  IN  data[k]

\* C14: for an ascending series with no sample at the target and samples on
\* both sides of it, interpolatePrice returns
\* before.price + (target - before.date) / (after.date - before.date)
\*                * (after.price - before.price)
\* for the latest earlier sample and the earliest later sample, and the
\* result lies between the two prices, inclusive.
C14_LinearInterpolation ==
  (/\ called = "interpolatePrice"
   /\ IsAscending(currency1)
   /\ \A k \in 1..Len(currency1) : currency1[k].date # targetTime
   /\ \E k \in 1..Len(currency1) : currency1[k].date < targetTime
   /\ \E k \in 1..Len(currency1) : currency1[k].date > targetTime)
  => LET before == LatestBefore(currency1, targetTime)
         after == EarliestAfter(currency1, targetTime)
         span == after.date - before.date
         low == IF before.priceSats < after.priceSats
                  THEN before.priceSats ELSE after.priceSats
         high == IF before.priceSats < after.priceSats
                   THEN after.priceSats ELSE before.priceSats
     IN  /\ estimate.kind = "number"
         /\ estimate.num * span
              = estimate.den * (before.priceSats * span
                                + (targetTime - before.date)
                                  * (after.priceSats - before.priceSats))
         /\ low * estimate.den <= estimate.num
         /\ estimate.num <= high * estimate.den

\* The target lay between the second and the third sample of an ascending
\* series, not halfway, and the estimate is not an integer.
C14_Witness ==
  /\ called = "interpolatePrice"
  /\ IsAscending(currency1)
  /\ Len(currency1) = 3
  /\ currency1[2].date < targetTime
  /\ currency1[3].date > targetTime
  /\ 2 * targetTime # currency1[2].date + currency1[3].date
  /\ estimate.kind = "number"
  /\ estimate.den > 1

\* C15: for a non-empty ascending series, a target later than every sample
\* gives the price of the last sample, and a target earlier than every
\* sample gives the price of the first sample.
C15_FlatExtrapolation ==
  (/\ called = "interpolatePrice"
   /\ currency1 # <<>>
   /\ IsAscending(currency1))
  => /\ (\A k \in 1..Len(currency1) : currency1[k].date < targetTime)
        => estimate = [kind |-> "number",
                       num |-> currency1[Len(currency1)].priceSats, den |-> 1]
     /\ (\A k \in 1..Len(currency1) : currency1[k].date > targetTime)
        => estimate = [kind |-> "number", num |-> currency1[1].priceSats, den |-> 1]

\* The target was later than the three samples of an ascending series whose
\* prices all differ.
C15_Witness ==
  /\ called = "interpolatePrice"
  /\ IsAscending(currency1)
  /\ Len(currency1) = 3
  /\ currency1[3].date < targetTime
  /\ currency1[1].priceSats # currency1[3].priceSats
  /\ currency1[2].priceSats # currency1[3].priceSats
  /\ estimate.kind = "number"

\* C16: interpolatePrice returns null exactly when the series is empty,
\* whatever the target; computeDirectExchangeRate has no null entry in its
\* output and returns the empty sequence when either series is empty.
C16_NullOnlyWhenEmpty ==
  /\ called = "interpolatePrice"
     => (estimate = null <=> currency1 = <<>>)
  /\ called = "computeDirectExchangeRate"
     => /\ \A k \in 1..Len(results) : results[k].price # null
        /\ (currency1 = <<>> \/ currency2 = <<>>) => results = <<>>

\* The priced series was empty and the comparison series had three
\* samples: the output is empty.
C16_Witness ==
  /\ called = "computeDirectExchangeRate"
  /\ currency1 = <<>>
  /\ Len(currency2) = 3
  /\ results = <<>>

(***************************************************************************)
(* Properties of the server.                                               *)
(***************************************************************************)
\* C2: a request handler answers for a symbol from the cache, without a
\* query of the store, only when the oldest cached sample of the symbol is
\* strictly older than the startDate of the request; when the oldest cached
\* sample is newer than startDate it queries the store.
C2_CacheOnlyWhenCovered ==
  \A k \in 1..Len(response.symbols) :
    LET symbol == response.symbols[k]
    IN  /\ response.fromCache[k]
           => /\ symbol \in DOMAIN cache
              /\ cache[symbol][1].date < response.startDate
        /\ (/\ response.startDate # 0
            /\ symbol \in DOMAIN cache
            /\ cache[symbol][1].date > response.startDate)
           => ~response.fromCache[k]

\* C17: the body of every response of /priceInSats/:symbol and of
\* /price/:baseSymbol/:pricedSymbol has at most limit entries, 10 when the
\* request gives no limit, whether the prices came from the cache or from
\* the store.
C17_AtMostLimit ==
  response # noResponse
  => Len(response.body) <= parseLimit(response.limit)

\* The symbols of the currencies that a run of ingestData has fetched, and
\* of those whose price it has written to the store.
Tracked(from, to) == {trackedCurrencies[k] : k \in from..to}

\* C3: in a run of ingestData in which the step of one currency threw (the
\* fetch or the write to the store), every other tracked currency was
\* fetched, put into the cache and written to the store in that run.
C3_FailureIsolated ==
  \A r \in Slots :
    (rounds[r].pc = "failed" /\ rounds[r].at \in {"fetch", "create"})
    => /\ Tracked(1, NumTracked) \ {trackedCurrencies[rounds[r].i]} \subseteq rounds[r].fetched
       /\ Tracked(1, NumTracked) \ {trackedCurrencies[rounds[r].i]} \subseteq rounds[r].created

\* C19: no step of a run of ingestData removes or alters a cached sample.
\* The step in which an await of the run throws leaves the cache as it is,
\* and every step of a run, up to and including its failure, keeps in the
\* cache every sample that was there, for the currency of the step and for
\* every other.
C19_FailureKeepsCache ==
  [][/\ (\E r \in Slots : rounds[r].pc # "failed" /\ rounds'[r].pc = "failed")
        => cache' = cache
     /\ (\E r \in Slots : /\ rounds[r].pc \in {"upsert", "fetch", "create"}
                          /\ rounds'[r] # rounds[r])
        => \A s \in DOMAIN cache :
             /\ s \in DOMAIN cache'
             /\ \A k \in 1..Len(cache[s]) :
                  \E j \in 1..Len(cache'[s]) : cache'[s][j] = cache[s][k]]_vars

\* A run has fetched and cached both currencies and failed at the write of
\* the second one to the store; the samples of both are in the cache.
C19_Witness ==
  \E r \in Slots :
    /\ rounds[r].pc = "failed"
    /\ rounds[r].at = "create"
    /\ rounds[r].i = NumTracked
    /\ rounds[r].fetched = Symbols
    /\ DOMAIN cache = Symbols

\* The sample p is cached for the symbol s.
InCache(s, p) ==
  /\ s \in DOMAIN cache
  /\ \E k \in 1..Len(cache[s]) : cache[s][k] = p

\* C20: while the timer keeps firing, also when every run of ingestData
\* fails, every cached sample is eventually no longer in the cache, and a
\* cached symbol is eventually no longer a key of the cache; no sample is
\* in the cache once a cleanup has run at a clock value later than its
\* timestamp plus the time-to-live.
C20_EventuallyPruned ==
  /\ \A s \in Symbols : \A p \in Quote : InCache(s, p) ~> ~InCache(s, p)
  /\ \A s \in Symbols : (s \in DOMAIN cache) ~> (s \notin DOMAIN cache)
  /\ [](\A s \in DOMAIN cache : \A k \in 1..Len(cache[s]) :
          now - cache[s][k].date <= ttlMillis)

\* Both symbols are cached, one run has failed and none is under way: the
\* samples can only leave the cache through the cleanup of the next tick.
C20_Witness ==
  /\ DOMAIN cache = Symbols
  /\ \E r \in Slots : rounds[r].pc = "failed"
  /\ \A r \in Slots : rounds[r].pc \in {"free", "done", "failed"}
  /\ now < SysEndTime

\* The runs of ingestData that are suspended at an await.
InFlight == {r \in Slots : rounds[r].pc \in {"upsert", "fetch", "create"}}

\* C22: at most one run of ingestData is in flight at any time: no timer
\* tick starts a run while an earlier one is suspended at an await.
C22_SingleWriter ==
  Cardinality(InFlight) <= 1

\* C23: no symbol is a key of the cache with an empty sequence: a sequence
\* that get returns has a first element.
C23_NoEmptySequence ==
  \A s \in DOMAIN cache : Len(cache[s]) >= 1

\* A cleanup found every one of the two samples of a symbol expired and
\* removed the symbol, while the other symbol stays cached.
C23_Witness ==
  /\ lastOp.op = "cleanup"
  /\ DOMAIN cache # {}
  /\ \E s \in DOMAIN prevCache :
       /\ s \notin DOMAIN cache
       /\ Len(prevCache[s]) = 2

\* The samples of a sequence, and the samples of the rows that the query of
\* the store for a symbol and a startDate matches.
SamplesOf(prices) == {prices[k] : k \in 1..Len(prices)}
StoreSamples(symbol, startDate) ==
  {toPricePoint(row) : row \in {x \in store : /\ x.symbol = symbol
                                              /\ x.dateTime > startDate}}

\* C24: a response of /priceInSats that was answered from the cache, for
\* ascending sort order, offset 0 and a limit not smaller than the number
\* of matching samples, has the samples that the query of the store (rows
\* of the symbol later than startDate) returns in the same state.
C24_CacheAgreesWithStore ==
  (/\ response.endpoint = "priceInSats"
   /\ response.fromCache[1]
   /\ response.sortOrder = "asc"
   /\ response.offset = 0
   /\ parseLimit(response.limit) >= Len(response.body)
   /\ parseLimit(response.limit)
        >= Cardinality(StoreSamples(response.symbols[1], response.startDate)))
  => SamplesOf(response.body)
       = StoreSamples(response.symbols[1], response.startDate)

\* C25: when no run of ingestData is in flight, every sample of the cache
\* is a row of the store, with the same symbol, timestamp and price.
C25_CacheBackedByStore ==
  InFlight = {}
  => \A s \in DOMAIN cache : \A k \in 1..Len(cache[s]) :
       [symbol |-> s, priceSats |-> cache[s][k].priceSats,
        dateTime |-> cache[s][k].date] \in store

\* The samples of prices later than startDate, in the order of prices.
RECURSIVE LaterThan(_, _)
LaterThan(prices, startDate) ==
  IF prices = <<>> THEN <<>>
  ELSE IF Head(prices).date > startDate
    THEN <<Head(prices)>> \o LaterThan(Tail(prices), startDate)
    ELSE LaterThan(Tail(prices), startDate)

\* The series of the k-th symbol of the response resp, taken from the
\* cache c as a whole where the handler read the cache, and from the rows
\* of the store otherwise; and the body that these series give.
SeriesOf(resp, c, rows, k) ==
  IF resp.fromCache[k]
    THEN LaterThan(c[resp.symbols[k]], resp.startDate)
    ELSE findMany(rows, resp.symbols[k], resp.startDate, resp.sortOrder,
                  parseLimit(resp.limit), resp.offset)
BodyOf(resp, c, rows) ==
  IF resp.endpoint = "priceInSats"
    THEN SeriesOf(resp, c, rows, 1)
    ELSE computeDirectExchangeRate(SeriesOf(resp, c, rows, 2), SeriesOf(resp, c, rows, 1))

====
